---- MODULE Spec2Model ----
(***************************************************************************)
(* Model of src/src/lib.rs: the chunked LZ4 stream container.              *)
(*                                                                         *)
(*   encode_stream  splits a Buf into slices of at most BLOCKSIZE bytes    *)
(*                  and frames each one with write_chunk;                  *)
(*   decode_stream  runs calc_dc_size (size pass), checks max_output,      *)
(*                  allocates the output and calls get_chunk until it      *)
(*                  reports done (fill pass).                              *)
(*                                                                         *)
(* Integer widths are scaled down so that the arithmetic stays inside the  *)
(* model checker's integers while every conversion of the source keeps     *)
(* its shape:                                                              *)
(*      u8            8 bits  ->  BYTE_BITS    = 3  (bytes are 0..7)       *)
(*      varint group  7 bits  ->  GROUP_BITS   = 2  (continuation bit = 4) *)
(*      u64 / usize  64 bits  ->  U64_BITS     = 7  (64 % 7 = 7 % 2 = 1)   *)
(*      u32 / i32    32 bits  ->  I32_BITS     = 3                         *)
(*      BLOCKSIZE     1 MiB   ->  2                                        *)
(* As in the source, the largest block the encoder can emit stays below    *)
(* the sign bit of i32 (BLOCKSIZE + 1 < 2^(I32_BITS-1)).                   *)
(* usize is taken to be 64 bits wide (u64 as usize is the identity).       *)
(***************************************************************************)
EXTENDS Integers, Sequences, FiniteSets, TLC

\* ------------------------------------------------------------------------
\* Scaled widths and program constants
\* ------------------------------------------------------------------------
BYTE_BITS == 3

GROUP_BITS == 2

U64_BITS == 7

I32_BITS == 3

BLOCKSIZE == 2

RECURSIVE Pow2(_)
Pow2(n) == IF n = 0 THEN 1 ELSE 2 * Pow2(n - 1)

Byte == 0 .. (Pow2(BYTE_BITS) - 1)

CONT == Pow2(GROUP_BITS)

USIZE_MAX == Pow2(U64_BITS) - 1

Min(a, b) == IF a <= b THEN a ELSE b

\* s[from .. from+n-1], 1-based; the caller guarantees the range
Slice(s, from, n) == [i \in 1 .. n |-> s[from + i - 1]]

RECURSIVE Flatten(_)
Flatten(ss) == IF ss = <<>> THEN <<>> ELSE Head(ss) \o Flatten(Tail(ss))

\* ------------------------------------------------------------------------
\* ChunkFlags (bitflags over u32)
\* ------------------------------------------------------------------------
FLAG_COMPRESSED == 1

FLAG_PASSES == 2

\* `x as u32`: keep the low 32 bits
AsU32(x) == x % Pow2(I32_BITS)

\* `x as i32 as usize`: keep the low 32 bits, read them as a signed number,
\* sign-extend to the width of usize
AsI32AsUsize(x) ==
    LET lo == x % Pow2(I32_BITS)
    IN  IF lo >= Pow2(I32_BITS - 1)
        THEN lo + Pow2(U64_BITS) - Pow2(I32_BITS)
        ELSE lo

\* `x as usize` on a 64-bit target
AsUsize(x) == x

\* ChunkFlags::from_bits_retain(raw).contains(ChunkFlags::Compressed)
IsCompressed(flags_raw) == (flags_raw \div FLAG_COMPRESSED) % 2 = 1

\* ------------------------------------------------------------------------
\* Varints (bytes_varint): little-endian groups, continuation bit on top
\* ------------------------------------------------------------------------
\* put_u64_varint(v)
RECURSIVE PutVarint(_)
PutVarint(v) ==
    IF v >= CONT THEN <<(v % CONT) + CONT>> \o PutVarint(v \div CONT)
    ELSE <<v>>

\* get_u64_varint at 0-based position pos of data.  Result:
\*   ok   TRUE  -> val is the value, pos the position after the varint
\*   ok   FALSE -> kind is "BufferUnderflow" or "NumericOverflow"
\*   last       the highest 0-based index read (or -1)
VARINT_LAST_SHIFT == (U64_BITS \div GROUP_BITS) * GROUP_BITS

VARINT_LAST_BITS == U64_BITS % GROUP_BITS

RECURSIVE GetVarintFrom(_, _, _, _)
GetVarintFrom(data, pos, shift, acc) ==
    IF pos >= Len(data)
    THEN [ok |-> FALSE, kind |-> "BufferUnderflow", val |-> 0, pos |-> pos,
          last |-> pos - 1]
    ELSE LET next == data[pos + 1]
             has_overflow ==
                 IF shift < VARINT_LAST_SHIFT THEN FALSE
                 ELSE IF shift = VARINT_LAST_SHIFT
                      THEN next \div Pow2(VARINT_LAST_BITS) # 0
                      ELSE TRUE
         IN  IF has_overflow
             THEN [ok |-> FALSE, kind |-> "NumericOverflow", val |-> 0,
                   pos |-> pos + 1, last |-> pos]
             ELSE LET acc2 == acc + (next % CONT) * Pow2(shift)
                  IN  IF next \div CONT = 0
                      THEN [ok |-> TRUE, kind |-> "Ok", val |-> acc2,
                            pos |-> pos + 1, last |-> pos]
                      ELSE GetVarintFrom(data, pos + 1, shift + GROUP_BITS, acc2)

\* a varint read that leaves the cursor where it was
GetVarintPeek(data, pos) == [GetVarintFrom(data, pos, 0, 0) EXCEPT !.pos = pos]

GetVarint(data, pos) == GetVarintFrom(data, pos, 0, 0)

\* ------------------------------------------------------------------------
\* The block compressor (lz4_flex::block), an external collaborator.
\* A block is a sequence of literal runs: a token byte r followed by r
\* literal bytes.  compress emits one run per BYTE_MAX literals;
\* decompress_into parses runs until the input is exhausted.
\* ------------------------------------------------------------------------
BYTE_MAX == Pow2(BYTE_BITS) - 1

RECURSIVE Compress(_)
Compress(input) ==
    IF Len(input) <= BYTE_MAX THEN <<Len(input)>> \o input
    ELSE <<BYTE_MAX>> \o SubSeq(input, 1, BYTE_MAX)
         \o Compress(SubSeq(input, BYTE_MAX + 1, Len(input)))

\* decompress_into(cv, out) with Len(out) = cap.  Result:
\*   ok TRUE  -> bytes are the bytes written to the front of out,
\*               Len(bytes) the count it returns
\*   ok FALSE -> the decompressor's own error; bytes were written before it
RECURSIVE DecompressFrom(_, _, _, _)
DecompressFrom(cv, i, cap, acc) ==
    IF i > Len(cv) THEN [ok |-> TRUE, bytes |-> acc]
    ELSE LET r == cv[i]
         IN  IF i + r > Len(cv) THEN [ok |-> FALSE, bytes |-> acc]
             ELSE IF Len(acc) + r > cap THEN [ok |-> FALSE, bytes |-> acc]
             ELSE DecompressFrom(cv, i + 1 + r, cap,
                                 acc \o Slice(cv, i + 1, r))

DecompressInto(cv, cap) ==
    IF cv = <<>> THEN [ok |-> FALSE, bytes |-> <<>>]
    ELSE DecompressFrom(cv, 1, cap, <<>>)

\* ------------------------------------------------------------------------
\* Error conversions
\* ------------------------------------------------------------------------
\* impl From<VarIntError> for ChunkResult
FromVarIntError(kind) ==
    CASE kind = "NumericOverflow" -> "VarintFail"
      [] kind = "BufferUnderflow" -> "VarintFail"

\* impl From<ChunkResult> for DSError
FromChunkResult(value) ==
    CASE value = "Overflow" -> "CorruptedOverflow"
      [] value = "VarintFail" -> "VarintFail"
      [] value = "LZ4Fail" -> "LZ4"

NoError == [kind |-> "None", computed |-> 0, max |-> 0]

DSError(kind) == [kind |-> kind, computed |-> 0, max |-> 0]

\* DSError::Overflow(out_size, max_output)
DSOverflow(out_size, max) == [kind |-> "Overflow", computed |-> out_size, max |-> max]

\* Option of the buffer handed to the caller
NoBuffer == [some |-> FALSE, buf |-> <<>>]

SomeBuffer(b) == [some |-> TRUE, buf |-> b]

\* ------------------------------------------------------------------------
\* Cursor<&[u8]> as (data, 0-based position)
\* ------------------------------------------------------------------------
\* Buf::remaining for Cursor: len.saturating_sub(position)
Remaining(data, pos) == IF pos >= Len(data) THEN 0 ELSE Len(data) - pos

\* ------------------------------------------------------------------------
\* calc_dc_size: one iteration of its loop
\* ------------------------------------------------------------------------
\* The conversion applied to the compressed_length field in calc_dc_size
CalcLengthCast(v) == AsI32AsUsize(v)

\* count.checked_add(original_length)
CheckedAdd(a, b) == IF a + b > USIZE_MAX THEN [some |-> FALSE, val |-> 0]
                    ELSE [some |-> TRUE, val |-> a + b]

\* data.advance(length) left out
CalcAdvanceNone(pos, length) == pos

\* data.advance(length) at the end of an iteration of calc_dc_size
CalcAdvance(pos, length) == pos + length

\* the cursor left where the loop ended
SetPositionIgnored(pos, prev_pos) == pos

\* data.set_position(prev_pos) before calc_dc_size returns Ok
SetPosition(pos, prev_pos) == prev_pos

\* Result tags: "Return" (Ok(count)), "Err" (a ChunkResult), "Continue"
CalcIter(data, pos, count) ==
    IF Remaining(data, pos) = 0
    THEN [tag |-> "Return", err |-> "None", pos |-> pos, count |-> count,
          orig |-> 0, length |-> 0, last |-> -1]
    ELSE
    LET f == GetVarint(data, pos)
        flags_raw == AsU32(f.val)
        is_compressed == IsCompressed(flags_raw)
        o == GetVarint(data, f.pos)
        original_length == AsUsize(o.val)
        c == GetVarint(data, o.pos)
        hdr_end == IF is_compressed THEN c.pos ELSE o.pos
        length == IF is_compressed THEN CalcLengthCast(c.val) ELSE original_length
        sum == CheckedAdd(count, original_length)
        Fail(e, p, l) == [tag |-> "Err", err |-> e, pos |-> p, count |-> count,
                          orig |-> 0, length |-> 0, last |-> l]
    IN  IF ~f.ok THEN Fail(FromVarIntError(f.kind), f.pos, f.last)
        ELSE IF ~o.ok THEN Fail(FromVarIntError(o.kind), o.pos, o.last)
        ELSE IF is_compressed /\ ~c.ok THEN Fail(FromVarIntError(c.kind), c.pos, c.last)
        ELSE IF length > Remaining(data, hdr_end) THEN Fail("Overflow", hdr_end, hdr_end - 1)
        ELSE IF ~sum.some THEN Fail("Overflow", hdr_end, hdr_end - 1)
        ELSE [tag |-> "Continue", err |-> "None",
              pos |-> CalcAdvance(hdr_end, length), count |-> sum.val, orig |-> original_length, length |-> length,
              last |-> hdr_end - 1]

\* ------------------------------------------------------------------------
\* get_chunk: one call
\* ------------------------------------------------------------------------
\* The conversion applied to the compressed_length field in get_chunk
ChunkLengthCast(v) == AsUsize(v)

\* the guard without its test of the output space
ChunkOverflowsInput(length, in_remaining, original_length, out_remaining) ==
    length > in_remaining

\* The guard of line 156
ChunkOverflows(length, in_remaining, original_length, out_remaining) ==
    length > in_remaining \/ original_length > out_remaining

\* out with bytes written at 0-based offset at
WriteAt(out, at, bytes) ==
    [i \in 1 .. Len(out) |->
        IF i > at /\ i <= at + Len(bytes) THEN bytes[i - at] ELSE out[i]]

\* Result tags: "Done" (Ok(true)), "More" (Ok(false)), "Err" (a ChunkResult),
\* "Panic" (a slice index out of range or a length mismatch in copy_from_slice)
GetChunkCall(data, pos, out, opos) ==
    LET R(tag, e, p, b, op, ol, len, dec, l) ==
            [tag |-> tag, err |-> e, pos |-> p, out |-> b, opos |-> op,
             orig |-> ol, length |-> len, decompressed |-> dec, last |-> l]
    IN
    IF Remaining(data, pos) = 0
    THEN R("Done", "None", pos, out, opos, 0, 0, FALSE, -1)
    ELSE
    LET f == GetVarint(data, pos)
        flags_raw == AsU32(f.val)
        is_compressed == IsCompressed(flags_raw)
        o == GetVarint(data, f.pos)
        original_length == AsUsize(o.val)
        c == GetVarint(data, o.pos)
        hdr_end == IF is_compressed THEN c.pos ELSE o.pos
        length == IF is_compressed THEN ChunkLengthCast(c.val) ELSE original_length
        in_rem == Remaining(data, hdr_end)
        out_rem == Remaining(out, opos)
        cv == Slice(data, hdr_end + 1, length)
        d == DecompressInto(cv, original_length)
        Fail(e, p, l) == R("Err", e, p, out, opos, 0, 0, FALSE, l)
    IN  IF ~f.ok THEN Fail(FromVarIntError(f.kind), f.pos, f.last)
        ELSE IF ~o.ok THEN Fail(FromVarIntError(o.kind), o.pos, o.last)
        ELSE IF is_compressed /\ ~c.ok THEN Fail(FromVarIntError(c.kind), c.pos, c.last)
        ELSE IF ChunkOverflows(length, in_rem, original_length, out_rem)
             THEN Fail("Overflow", hdr_end, hdr_end - 1)
        \* &state.input.chunk()[..length]
        ELSE IF length > in_rem
             THEN R("Panic", "None", hdr_end, out, opos, 0, 0, FALSE, hdr_end - 1)
        \* &mut state.output.get_mut()[pos..original_length + pos]
        ELSE IF original_length + opos > Len(out)
             THEN R("Panic", "None", hdr_end, out, opos, 0, 0, FALSE, hdr_end - 1)
        ELSE IF is_compressed
             THEN IF ~d.ok
                  THEN R("Err", "LZ4Fail", hdr_end, WriteAt(out, opos, d.bytes),
                         opos, original_length, length, TRUE, hdr_end + length - 1)
                  ELSE IF Len(d.bytes) # original_length
                  THEN R("Err", "Overflow", hdr_end, WriteAt(out, opos, d.bytes),
                         opos, original_length, length, TRUE, hdr_end + length - 1)
                  ELSE R("More", "None", hdr_end + length,
                         WriteAt(out, opos, d.bytes), opos + original_length,
                         original_length, length, TRUE, hdr_end + length - 1)
        \* out.copy_from_slice(cv)
        ELSE IF Len(cv) # original_length
             THEN R("Panic", "None", hdr_end, out, opos, 0, 0, FALSE, hdr_end - 1)
        ELSE R("More", "None", hdr_end + length, WriteAt(out, opos, cv),
               opos + original_length, original_length, length, FALSE,
               hdr_end + length - 1)

\* ------------------------------------------------------------------------
\* decode_stream as a function of its arguments: the outcome of running the
\* size pass, the max_output check and the fill pass to the end
\* ------------------------------------------------------------------------
RECURSIVE SizePass(_, _, _)
SizePass(data, pos, count) ==
    LET r == CalcIter(data, pos, count)
    IN  IF r.tag = "Continue" THEN SizePass(data, r.pos, r.count) ELSE r

RECURSIVE FillPass(_, _, _, _)
FillPass(data, pos, out, opos) ==
    LET r == GetChunkCall(data, pos, out, opos)
    IN  IF r.tag = "More" THEN FillPass(data, r.pos, r.out, r.opos) ELSE r

DecodeStream(data, start, max) ==
    LET size == SizePass(data, start, 0)
        fill == FillPass(data, start, [i \in 1 .. size.count |-> 0], 0)
    IN  IF size.tag = "Err"
        THEN [pc |-> "Failed", err |-> DSError(FromChunkResult(size.err)),
              ret |-> NoBuffer]
        ELSE IF size.count > max
        THEN [pc |-> "Failed", err |-> DSOverflow(size.count, max),
              ret |-> NoBuffer]
        ELSE IF fill.tag = "Err"
        THEN [pc |-> "Failed", err |-> DSError(FromChunkResult(fill.err)),
              ret |-> NoBuffer]
        ELSE IF fill.tag = "Panic"
        THEN [pc |-> "Panic", err |-> NoError, ret |-> NoBuffer]
        ELSE [pc |-> "Done", err |-> NoError, ret |-> SomeBuffer(fill.out)]

\* ------------------------------------------------------------------------
\* write_chunk and the Buf the encoder reads
\* ------------------------------------------------------------------------
\* write_chunk with the two length fields written in the other order
WriteChunkSwapped(data, input) ==
    LET comp == Compress(input)
    IN  data \o PutVarint(FLAG_COMPRESSED) \o PutVarint(Len(comp))
             \o PutVarint(Len(input)) \o comp

\* write_chunk storing the slice as it is, with the Compressed bit unset
WriteChunkStored(data, input) ==
    data \o PutVarint(0) \o PutVarint(Len(input)) \o input

\* write_chunk(data, input): data with the chunk appended
WriteChunk(data, input) ==
    LET comp == Compress(input)
    IN  data \o PutVarint(FLAG_COMPRESSED) \o PutVarint(Len(input))
             \o PutVarint(Len(comp)) \o comp

\* the slice length taken one byte too long
SliceLenOffByOne(remaining) == Min(remaining, BLOCKSIZE + 1)

\* min(data.remaining(), BLOCKSIZE)
SliceLen(remaining) == Min(remaining, BLOCKSIZE)

\* A Buf is a sequence of non-empty contiguous segments.
BufRemaining(b) == Len(Flatten(b))

\* Buf::chunk: the first segment
BufChunk(b) == IF b = <<>> THEN <<>> ELSE Head(b)

\* Buf::advance(cnt), cnt <= remaining
RECURSIVE BufAdvance(_, _)
BufAdvance(b, cnt) ==
    IF cnt = 0 \/ b = <<>> THEN b
    ELSE IF cnt >= Len(Head(b)) THEN BufAdvance(Tail(b), cnt - Len(Head(b)))
    ELSE <<SubSeq(Head(b), cnt + 1, Len(Head(b)))>> \o Tail(b)

\* ------------------------------------------------------------------------
\* The wire format, read at full width: the chunks of a stream as the
\* format defines them (flags, original_length, compressed_length when bit 0
\* of flags is set, payload), up to the first chunk that is not well-formed.
\*   status  Ok               every chunk is well-formed
\*           TruncatedHeader  the input ends inside the header at `at`
\*           BadVarint        a header varint does not fit 64 bits
\*           ShortPayload     the framed length exceeds the remaining input
\*           BadBlock         the block does not decompress to original_length
\* ------------------------------------------------------------------------
RECURSIVE WireParseFrom(_, _, _)
WireParseFrom(data, pos, chunks) ==
    IF pos >= Len(data)
    THEN [status |-> "Ok", chunks |-> chunks, at |-> pos, flags |-> 0,
          flags_end |-> pos, compressed |-> FALSE]
    ELSE
    LET f == GetVarint(data, pos)
        o == GetVarint(data, f.pos)
        c == GetVarint(data, o.pos)
        compressed == f.val % 2 = 1
        hdr_end == IF compressed THEN c.pos ELSE o.pos
        framed == IF compressed THEN c.val ELSE o.val
        payload == Slice(data, hdr_end + 1, framed)
        d == DecompressInto(payload, o.val)
        Bad(st) == [status |-> st, chunks |-> chunks, at |-> pos,
                    flags |-> IF f.ok THEN f.val ELSE 0,
                    flags_end |-> IF f.ok THEN f.pos ELSE pos,
                    compressed |-> f.ok /\ compressed]
        VarintStatus(v) == IF v.kind = "BufferUnderflow" THEN "TruncatedHeader"
                           ELSE "BadVarint"
    IN  IF ~f.ok THEN Bad(VarintStatus(f))
        ELSE IF ~o.ok THEN Bad(VarintStatus(o))
        ELSE IF compressed /\ ~c.ok THEN Bad(VarintStatus(c))
        ELSE IF framed > Len(data) - hdr_end THEN Bad("ShortPayload")
        ELSE IF compressed /\ (~d.ok \/ Len(d.bytes) # o.val) THEN Bad("BadBlock")
        ELSE WireParseFrom(data, hdr_end + framed,
                Append(chunks,
                    [at |-> pos, flags |-> f.val, flags_end |-> f.pos,
                     compressed |-> compressed, orig |-> o.val,
                     framed |-> framed,
                     plain |-> IF compressed THEN d.bytes ELSE payload]))

WireParse(data, pos) == WireParseFrom(data, pos, <<>>)

RECURSIVE ConcatPlain(_)
ConcatPlain(chunks) ==
    IF chunks = <<>> THEN <<>> ELSE Head(chunks).plain \o ConcatPlain(Tail(chunks))

\* ------------------------------------------------------------------------
\* Inputs
\* ------------------------------------------------------------------------
MaxRawLen == 3

MaxChunks == 2

MaxSrcLen == 5

MaxOutput == 4

MaxStart == 1

SeqsUpTo(S, n) == UNION {[1 .. k -> S] : k \in 0 .. n}

\* Bytes of the plaintexts given to the encoder and carried by chunks
PlainBytes == {1, 6}

Plains == SeqsUpTo(PlainBytes, BLOCKSIZE)

\* One chunk on the wire: flags, original_length, compressed_length when
\* bit 0 of flags is set, then the payload bytes
Chunk(flags, original_length, compressed_length, payload) ==
    PutVarint(flags) \o PutVarint(original_length)
    \o (IF flags % 2 = 1 THEN PutVarint(compressed_length) ELSE <<>>)
    \o payload

\* Chunks as a conforming writer emits them
StoredChunk(flags, p) == Chunk(flags, Len(p), 0, p)

PackedChunk(flags, p) == Chunk(flags, Len(p), Len(Compress(p)), Compress(p))

GoodChunks ==
    {StoredChunk(0, p) : p \in Plains} \cup {PackedChunk(1, p) : p \in Plains}
    \cup {StoredChunk(2, <<6>>), PackedChunk(3, <<6>>)}

\* Chunks with any flags value a varint can carry
FlagValues == (0 .. 9) \cup {64, 65, USIZE_MAX - 1, USIZE_MAX}

FlagChunks ==
    {IF f % 2 = 1 THEN PackedChunk(f, p) ELSE StoredChunk(f, p) :
        f \in FlagValues, p \in {<<>>, <<6>>}}

\* Compressed chunks whose block is two literal runs (compressed_length
\* reaches the sign bit of i32) or longer (it passes 2^32)
RunBlocks ==
    {<<1, a, 1, b>> : a, b \in PlainBytes}
    \cup {<<0, 0, 0, 0, 0, 0, 0, 0>>, <<0, 0, 0, 0, 0, 2, 1, 6>>,
          <<0, 0, 0, 0, 0, 0, 1, 6>>, <<1, 0, 1, 6, 0, 0, 1, 0, 0>>,
          <<0, 0, 0, 0, 3, 0, 0, 3>>}

LongChunks ==
    {Chunk(1, Len(DecompressInto(b, USIZE_MAX).bytes), Len(b), b) : b \in RunBlocks}

\* Compressed chunks declaring a length of their own choosing
DeclaredLengths == {0, 1, 2, 3, 4, 5, 8, 9, 64, USIZE_MAX}

Tails == SeqsUpTo({0, 1, 4, 6}, 2)

DeclaredChunks ==
    {Chunk(1, o, c, t) : o \in {0, 1}, c \in DeclaredLengths, t \in Tails}

\* Chunks declaring a large original_length
LargeChunks ==
    {Chunk(1, o, 1, <<0>>) : o \in {64, USIZE_MAX}}
    \cup {Chunk(0, o, 0, <<6>>) : o \in {64, USIZE_MAX}}

RECURSIVE StreamsOf(_, _)
StreamsOf(menu, n) ==
    IF n = 0 THEN {<<>>}
    ELSE LET shorter == StreamsOf(menu, n - 1)
         IN  shorter \cup {s \o c : s \in shorter, c \in menu}

GoodStreams == StreamsOf(GoodChunks, MaxChunks)

\* Streams cut off anywhere
Prefixes(S) == UNION {{SubSeq(s, 1, k) : k \in 0 .. Len(s)} : s \in S}

OddStreams ==
    LET odd == FlagChunks \cup LongChunks \cup DeclaredChunks \cup LargeChunks
        few == {StoredChunk(0, <<6>>), PackedChunk(1, <<1>>)}
    IN  odd \cup {g \o c : g \in few, c \in odd} \cup {c \o g : g \in few, c \in odd}
        \cup {c \o d : c, d \in LongChunks \cup LargeChunks}
        \cup Prefixes({c \o g : c \in LongChunks, g \in few})

RawStreams == SeqsUpTo(Byte, MaxRawLen)

PlainStreams == Prefixes(GoodStreams) \cup RawStreams

Streams == PlainStreams \cup OddStreams

\* Every way to cut b into contiguous non-empty segments
RECURSIVE Segmentations(_)
Segmentations(b) ==
    IF b = <<>> THEN {<<>>}
    ELSE UNION {{<<SubSeq(b, 1, k)>> \o rest :
                    rest \in Segmentations(SubSeq(b, k + 1, Len(b)))} :
                k \in 1 .. Len(b)}

\* The Bufs given to the encoder: every segmentation of every plaintext
Bufs == UNION {Segmentations(b) : b \in SeqsUpTo(PlainBytes, MaxSrcLen)}

\* ------------------------------------------------------------------------
\* State
\* ------------------------------------------------------------------------
VARIABLES
    pc,          \* Encoding, Encoded, EncodePanic,
                 \* Sizing, Allocating, Filling, Done, Failed, Panic
    src,         \* the Buf given to encode_stream, as its segments
    segs,        \* encode_stream: the unread part of the Buf, as its segments
    result,      \* encode_stream: the BytesMut written so far
    emitted,     \* encode_stream: original_length / compressed length per chunk
    data,        \* decode_stream: the bytes under the input cursor
    prev_pos,    \* calc_dc_size: the cursor's position at entry
    pos,         \* the input cursor's position
    count,       \* calc_dc_size: the running total
    out_size,    \* decode_stream: the total calc_dc_size returned
    max_output,  \* decode_stream: the caller's ceiling
    out,         \* the output buffer
    opos,        \* the output cursor's position
    err,         \* the DSError returned
    ret,         \* the buffer returned
    allocs,      \* number of output buffers allocated
    calls,       \* number of get_chunk calls
    sized,       \* chunks seen by calc_dc_size: header position, lengths
    filled,      \* chunks seen by get_chunk: header position, lengths
    decomp,      \* header positions of the chunks given to decompress_into
    lastread     \* highest input index read so far (-1: none)

vars == <<pc, src, segs, result, emitted, data, prev_pos, pos, count, out_size,
          max_output, out, opos, err, ret, allocs, calls, sized, filled, decomp,
          lastread>>

Max(a, b) == IF a >= b THEN a ELSE b

encVars == <<src, segs, result, emitted>>

decVars == <<data, prev_pos, pos, count, out_size, max_output, out, opos, err,
             ret, allocs, calls, sized, filled, decomp, lastread>>

\* decode_stream(Cursor over d at position p, k) is entered
EnterDecode(d, p, k) ==
    /\ data' = d
    /\ prev_pos' = p
    /\ pos' = p
    /\ count' = 0
    /\ out_size' = 0
    /\ max_output' = k
    /\ out' = <<>>
    /\ opos' = 0
    /\ err' = NoError
    /\ ret' = NoBuffer
    /\ allocs' = 0
    /\ calls' = 0
    /\ sized' = <<>>
    /\ filled' = <<>>
    /\ decomp' = {}
    /\ lastread' = -1

DecodeIdle ==
    /\ data = <<>>
    /\ prev_pos = 0
    /\ pos = 0
    /\ count = 0
    /\ out_size = 0
    /\ max_output = 0
    /\ out = <<>>
    /\ opos = 0
    /\ err = NoError
    /\ ret = NoBuffer
    /\ allocs = 0
    /\ calls = 0
    /\ sized = <<>>
    /\ filled = <<>>
    /\ decomp = {}
    /\ lastread = -1

\* encode_stream is called on a Buf holding b
InitEncode ==
    /\ pc = "Encoding"
    /\ src \in Bufs
    /\ segs = src
    /\ result = <<>>
    /\ emitted = <<>>
    /\ DecodeIdle

\* decode_stream is called on a cursor over arbitrary bytes
InitDecode ==
    /\ pc = "Sizing"
    /\ src = <<>>
    /\ segs = <<>>
    /\ result = <<>>
    /\ emitted = <<>>
    /\ data \in Streams
    /\ prev_pos \in IF data \in PlainStreams THEN 0 .. Min(MaxStart, Len(data))
                    ELSE {0}
    /\ pos = prev_pos
    /\ max_output \in 0 .. MaxOutput
    /\ count = 0
    /\ out_size = 0
    /\ out = <<>>
    /\ opos = 0
    /\ err = NoError
    /\ ret = NoBuffer
    /\ allocs = 0
    /\ calls = 0
    /\ sized = <<>>
    /\ filled = <<>>
    /\ decomp = {}
    /\ lastread = -1

Init == InitEncode \/ InitDecode

\* ------------------------------------------------------------------------
\* encode_stream
\* ------------------------------------------------------------------------
\* One pass through the loop of encode_stream, the return included
EncodeLoop ==
    /\ pc = "Encoding"
    /\ UNCHANGED <<src, decVars>>
    /\ IF BufRemaining(segs) = 0
       THEN /\ pc' = "Encoded"
            /\ UNCHANGED <<segs, result, emitted>>
       ELSE LET len == SliceLen(BufRemaining(segs))
                chunk == BufChunk(segs)
            IN  IF len > Len(chunk)
                THEN \* &data.chunk()[0..len] is out of range
                     /\ pc' = "EncodePanic"
                     /\ UNCHANGED <<segs, result, emitted>>
                ELSE LET buffer == SubSeq(chunk, 1, len)
                     IN  /\ result' = WriteChunk(result, buffer)
                         /\ emitted' = Append(emitted,
                                [at |-> Len(result), orig |-> len,
                                 comp |-> Len(Compress(buffer))])
                         /\ segs' = BufAdvance(segs, len)
                         /\ pc' = "Encoding"

\* The caller decodes what encode_stream returned
DecodeEncoded ==
    /\ pc = "Encoded"
    /\ LET n == BufRemaining(src)
       IN  \E k \in {n, n + 1, Max(n, 1) - 1} : EnterDecode(result, 0, k)
    /\ pc' = "Sizing"
    /\ UNCHANGED encVars

\* ------------------------------------------------------------------------
\* decode_stream
\* ------------------------------------------------------------------------
\* One pass through the loop of calc_dc_size, the return included
CalcDcSize ==
    /\ pc = "Sizing"
    /\ \E r \in {CalcIter(data, pos, count)} :
           /\ lastread' = Max(lastread, r.last)
           /\ CASE r.tag = "Return" ->
                    /\ pos' = SetPosition(r.pos, prev_pos)
                    /\ out_size' = r.count
                    /\ pc' = "Allocating"
                    /\ UNCHANGED <<count, err, sized>>
                [] r.tag = "Err" ->
                    /\ pos' = r.pos
                    /\ err' = DSError(FromChunkResult(r.err))
                    /\ pc' = "Failed"
                    /\ UNCHANGED <<count, out_size, sized>>
                [] r.tag = "Continue" ->
                    /\ pos' = r.pos
                    /\ count' = r.count
                    /\ sized' = Append(sized, [at |-> pos, orig |-> r.orig,
                                               length |-> r.length])
                    /\ pc' = "Sizing"
                    /\ UNCHANGED <<err, out_size>>
    /\ UNCHANGED <<encVars, data, prev_pos, max_output, out, opos, ret, allocs,
                   calls, filled, decomp>>

\* The output buffer allocated before max_output is checked
AllocateFirst ==
    /\ pc = "Allocating"
    /\ out' = [i \in 1 .. out_size |-> 0]
    /\ allocs' = allocs + 1
    /\ IF out_size > max_output
       THEN /\ err' = DSOverflow(out_size, max_output)
            /\ pc' = "Failed"
       ELSE /\ pc' = "Filling"
            /\ UNCHANGED err
    /\ opos' = 0
    /\ UNCHANGED <<encVars, data, prev_pos, pos, count, out_size, max_output,
                   ret, calls, sized, filled, decomp, lastread>>

\* The max_output check and the allocation of the output buffer
Allocate ==
    /\ pc = "Allocating"
    /\ IF out_size > max_output
       THEN /\ err' = DSOverflow(out_size, max_output)
            /\ pc' = "Failed"
            /\ UNCHANGED <<out, allocs>>
       ELSE /\ out' = [i \in 1 .. out_size |-> 0]
            /\ allocs' = allocs + 1
            /\ pc' = "Filling"
            /\ UNCHANGED err
    /\ opos' = 0
    /\ UNCHANGED <<encVars, data, prev_pos, pos, count, out_size, max_output,
                   ret, calls, sized, filled, decomp, lastread>>

\* One call of get_chunk from the loop of decode_stream
GetChunk ==
    /\ pc = "Filling"
    /\ \E r \in {GetChunkCall(data, pos, out, opos)} :
           /\ calls' = calls + 1
           /\ lastread' = Max(lastread, r.last)
           /\ decomp' = IF r.decompressed THEN decomp \cup {pos} ELSE decomp
           /\ out' = r.out
           /\ CASE r.tag = "Done" ->
                    /\ ret' = SomeBuffer(out)
                    /\ pc' = "Done"
                    /\ UNCHANGED <<pos, opos, err, filled>>
                [] r.tag = "Err" ->
                    /\ err' = DSError(FromChunkResult(r.err))
                    /\ pos' = r.pos
                    /\ pc' = "Failed"
                    /\ UNCHANGED <<opos, ret, filled>>
                [] r.tag = "Panic" ->
                    /\ pos' = r.pos
                    /\ pc' = "Panic"
                    /\ UNCHANGED <<opos, err, ret, filled>>
                [] r.tag = "More" ->
                    /\ pos' = r.pos
                    /\ opos' = r.opos
                    /\ filled' = Append(filled, [at |-> pos, orig |-> r.orig,
                                                 length |-> r.length])
                    /\ pc' = "Filling"
                    /\ UNCHANGED <<err, ret>>
    /\ UNCHANGED <<encVars, data, prev_pos, count, out_size, max_output, allocs,
                   sized>>

Wire == WireParse(data, prev_pos)

Returned == pc \in {"Done", "Failed", "Panic"}

SourceBytes == Flatten(src)

CeilDiv(a, b) == (a + b - 1) \div b

Next == EncodeLoop \/ DecodeEncoded \/ CalcDcSize \/ Allocate \/ GetChunk

\* decode_stream on arbitrary bytes, and encode_stream followed by
\* decode_stream
Spec == Init /\ [][Next]_vars

\* encode_stream on every Buf, followed by decode_stream of its result
RoundTripSpec == InitEncode /\ [][Next]_vars

\* decode_stream called with the largest max_output (calc_dc_size is not
\* given max_output), and encode_stream followed by decode_stream
SizeSpec == (InitEncode \/ (InitDecode /\ max_output = MaxOutput)) /\ [][Next]_vars

\* The calls followed to their end: decode_stream on every short byte
\* string, on the streams of well-formed chunks and on the long chunks alone
\* and followed by another chunk, and encode_stream on the short Bufs
FairStreams ==
    RawStreams \cup GoodStreams \cup LongChunks
    \cup {c \o g : c \in LongChunks,
                   g \in {StoredChunk(0, <<6>>), PackedChunk(1, <<1>>)}}

InitFair ==
    \/ InitDecode /\ data \in FairStreams /\ prev_pos = 0 /\ max_output = MaxOutput
    \/ InitEncode /\ BufRemaining(src) <= MaxRawLen

\* The program keeps running: a loop that can take its next pass takes it
FairSpec == InitFair /\ [][Next]_vars /\ WF_vars(Next)

\* ------------------------------------------------------------------------
\* Properties
\* ------------------------------------------------------------------------
WireSize == Len(ConcatPlain(Wire.chunks))

\* C1 (round trip): for a contiguous byte sequence b, encode_stream does not
\* abort, and decode_stream(encode_stream(b), max_output = len(b)) returns Ok
\* with a buffer equal to b.
C1_RoundTrip ==
    Len(src) <= 1 =>
        /\ pc # "EncodePanic"
        /\ (Returned /\ data = result /\ max_output = Len(SourceBytes))
              => (pc = "Done" /\ ret = SomeBuffer(SourceBytes))

\* A source longer than two blocks, with both byte values in it, came back
C1_Witness ==
    /\ pc = "Done"
    /\ Len(src) = 1
    /\ data = result
    /\ Len(SourceBytes) > 2 * BLOCKSIZE
    /\ max_output = Len(SourceBytes)
    /\ ret = SomeBuffer(SourceBytes)
    /\ \E i, j \in 1 .. Len(SourceBytes) : SourceBytes[i] # SourceBytes[j]

\* C2 (max-output enforcement): for a stream whose chunks are all well-formed,
\* with decoded size n, decode_stream fails with Overflow(n, max_output) when
\* n > max_output and succeeds when n <= max_output.
C2_MaxOutput ==
    (Returned /\ Wire.status = "Ok") =>
        IF WireSize > max_output
        THEN pc = "Failed" /\ err = DSOverflow(WireSize, max_output)
        ELSE pc = "Done"

\* C3 (declared-length mismatch): when the first chunk that is not
\* well-formed has the Compressed bit set and declares a compressed_length
\* larger than the input left after its header, decode_stream fails with an
\* Overflow error and decompress_into is never called on that chunk.
C3_DeclaredLength ==
    (Returned /\ Wire.status = "ShortPayload" /\ Wire.compressed) =>
        /\ pc = "Failed"
        /\ err.kind \in {"CorruptedOverflow", "Overflow"}
        /\ Wire.at \notin decomp

\* C4 (truncated header): for a well-formed stream cut off inside a chunk
\* header decode_stream returns VarintFail, without aborting and without
\* reading at or beyond the end of the input.
C4_TruncatedHeader ==
    (Returned /\ Wire.status = "TruncatedHeader") =>
        /\ pc = "Failed"
        /\ err.kind = "VarintFail"
        /\ lastread < Len(data)

\* C5 (encode_stream is total): however the Buf is split into segments,
\* encode_stream does not abort, and when it returns the Buf has no bytes
\* remaining.
C5_EncodeTotal ==
    /\ pc # "EncodePanic"
    /\ pc = "Encoded" => BufRemaining(segs) = 0

\* C6 (chunking boundary): when encode_stream returns for an input of n
\* bytes, its result is exactly ceil(n / BLOCKSIZE) chunks in input order,
\* every chunk but the last declaring original_length = BLOCKSIZE and
\* carrying that block of the input, the last one the remainder.
C6_Chunking ==
    pc = "Encoded" =>
        LET w == WireParse(result, 0)
            n == Len(SourceBytes)
            m == CeilDiv(n, BLOCKSIZE)
        IN  /\ w.status = "Ok"
            /\ Len(w.chunks) = m
            /\ \A i \in 1 .. m :
                /\ w.chunks[i].orig =
                       IF i < m THEN BLOCKSIZE ELSE n - (m - 1) * BLOCKSIZE
                /\ w.chunks[i].plain =
                       SubSeq(SourceBytes, (i - 1) * BLOCKSIZE + 1,
                              Min(i * BLOCKSIZE, n))

\* BLOCKSIZE + 1 bytes were encoded as two chunks, the second holding one byte
C6_Witness ==
    /\ pc = "Encoded"
    /\ Len(SourceBytes) = BLOCKSIZE + 1
    /\ LET w == WireParse(result, 0)
       IN  /\ Len(w.chunks) = 2
           /\ w.chunks[1].orig = BLOCKSIZE
           /\ w.chunks[2].plain = <<SourceBytes[BLOCKSIZE + 1]>>

\* C7 (all-or-nothing): decode_stream returns either an error and no buffer,
\* or a buffer that is the in-order concatenation of the decoded payloads of
\* all chunks of the stream.
C7_AllOrNothing ==
    Returned =>
        IF ret.some
        THEN pc = "Done" /\ Wire.status = "Ok" /\ ret.buf = ConcatPlain(Wire.chunks)
        ELSE pc = "Failed" /\ err # NoError

StoredAt == {Wire.chunks[i].at :
                i \in {j \in 1 .. Len(Wire.chunks) : ~Wire.chunks[j].compressed}}

\* C8 (uncompressed round trip): for a well-formed stream holding chunks with
\* the Compressed bit unset, alone or mixed with compressed chunks, and
\* max_output at least the total payload length, decode_stream returns the
\* concatenation of the payloads and does not call decompress_into on the
\* uncompressed chunks.
C8_Uncompressed ==
    (Returned /\ Wire.status = "Ok" /\ StoredAt # {} /\ max_output >= WireSize) =>
        /\ pc = "Done"
        /\ ret = SomeBuffer(ConcatPlain(Wire.chunks))
        /\ decomp \cap StoredAt = {}

\* The chunk headers of the stream: those of the well-formed chunks and of
\* the first chunk that is not, when its flags can be read
Headers ==
    {[at |-> Wire.chunks[i].at, flags |-> Wire.chunks[i].flags,
      flags_end |-> Wire.chunks[i].flags_end] : i \in 1 .. Len(Wire.chunks)}
    \cup (IF Wire.status # "Ok" /\ Wire.flags_end > Wire.at
          THEN {[at |-> Wire.at, flags |-> Wire.flags,
                 flags_end |-> Wire.flags_end]}
          ELSE {})

\* The stream with the flags of the chunk at h written as g
WithFlags(h, g) ==
    SubSeq(data, 1, h.at) \o PutVarint(g)
    \o SubSeq(data, h.flags_end + 1, Len(data))

\* C9 (unrecognized flag bits are ignored): changing bits of a chunk's flags
\* other than bit 0 leaves the result of decode_stream unchanged.
C9_FlagBits ==
    Returned =>
        \A h \in Headers : \A g \in FlagValues :
            g % 2 = h.flags % 2 =>
                DecodeStream(WithFlags(h, g), prev_pos, max_output)
                    = [pc |-> pc, err |-> err, ret |-> ret]

FirstFlags == GetVarint(data, prev_pos)

FirstOriginalLength == GetVarint(data, FirstFlags.pos)

FirstCompressedLength == GetVarint(data, FirstOriginalLength.pos)

\* C10 (header integers that do not fit): when the first header decodes to a
\* flags value that does not fit 32 bits, or to a compressed_length that does
\* not fit the i32 it is converted to, decode_stream fails with VarintFail.
C10_HeaderWidth ==
    (/\ Returned
     /\ FirstFlags.ok
     /\ FirstOriginalLength.ok
     /\ FirstFlags.val % 2 = 1 => FirstCompressedLength.ok
     /\ \/ FirstFlags.val >= Pow2(I32_BITS)
        \/ /\ FirstFlags.val % 2 = 1
           /\ FirstCompressedLength.val >= Pow2(I32_BITS - 1))
    => (pc = "Failed" /\ err.kind = "VarintFail")

IsPrefix(s, t) == Len(s) <= Len(t) /\ s = SubSeq(t, 1, Len(s))

RECURSIVE SumOrig(_)
SumOrig(chunks) ==
    IF chunks = <<>> THEN 0 ELSE Head(chunks).orig + SumOrig(Tail(chunks))

\* C11 (the two passes agree): when calc_dc_size has succeeded, the chunks
\* get_chunk parses are, one by one, the chunks calc_dc_size parsed (same
\* header position, original_length and framed length), and when the fill
\* pass ends it has parsed all of them and written out_size bytes.
C11_SamePasses ==
    /\ IsPrefix(filled, sized)
    /\ pc = "Done" => (filled = sized /\ opos = out_size)

\* C12 (framed length beyond the input): when the first chunk that is not
\* well-formed declares a framed length larger than the input left after
\* its header, calc_dc_size returns Overflow at that chunk and decode_stream
\* fails before the buffer is allocated and before get_chunk is called.
C12_SizeOverflow ==
    (Returned /\ Wire.status = "ShortPayload") =>
        /\ pc = "Failed"
        /\ err.kind = "CorruptedOverflow"
        /\ Len(sized) = Len(Wire.chunks)
        /\ allocs = 0
        /\ calls = 0

\* C13 (exact total): the running total never leaves usize, and when
\* calc_dc_size returns Ok(t) on a stream of well-formed chunks, t is the sum
\* of the original_length fields of the chunks of the stream.
C13_ExactTotal ==
    /\ count <= USIZE_MAX
    /\ out_size <= USIZE_MAX
    /\ (pc = "Allocating" /\ Wire.status = "Ok")
          => out_size = SumOrig(Wire.chunks)

\* C14 (pure lookahead): calc_dc_size leaves the input bytes as they were,
\* and when it returns Ok the cursor is back at the position it had on entry,
\* whatever that position was; the fill pass starts from that position.
C14_Lookahead ==
    [][/\ pc = "Sizing" => (data' = data /\ prev_pos' = prev_pos)
       /\ (pc = "Sizing" /\ pc' = "Allocating") => pos' = prev_pos
       /\ (pc = "Allocating" /\ pc' = "Filling")
             => (data' = data /\ pos' = prev_pos)]_vars

\* calc_dc_size entered past the start of the input, walked over a chunk and
\* returned with the cursor back where it was
C14_Witness ==
    /\ pc = "Allocating"
    /\ prev_pos > 0
    /\ Len(sized) >= 1
    /\ pos = prev_pos

\* calc_dc_size run to its end on d from position p: what it returns, where
\* it leaves the cursor, and the indices of the payload bytes it stepped over
RECURSIVE SizeRun(_, _, _, _)
SizeRun(d, p, c, payload) ==
    LET r == CalcIter(d, p, c)
    IN  IF r.tag = "Continue"
        THEN SizeRun(d, r.pos, r.count,
                     payload \cup ((r.last + 2) .. (r.last + 1 + r.length)))
        ELSE [tag |-> r.tag, err |-> r.err, count |-> r.count,
              pos |-> IF r.tag = "Return" THEN SetPosition(r.pos, prev_pos)
                      ELSE r.pos,
              payload |-> payload]

SizePassEnded ==
    pc = "Allocating" \/ (pc = "Failed" /\ allocs = 0 /\ err.kind # "Overflow")

\* The inputs that differ from data in one payload byte, or in all of them
PayloadVariants(payload) ==
    {[data EXCEPT ![i] = b] : i \in payload, b \in Byte}
    \cup {[i \in 1 .. Len(data) |-> IF i \in payload THEN b ELSE data[i]] :
             b \in Byte}

\* C15 (payload bytes do not influence the size pass): on an input that
\* differs from the one given only inside the payloads the size pass stepped
\* over, calc_dc_size steps over the same payloads, returns the same result
\* and leaves the cursor at the same position.
C15_PayloadBlind ==
    SizePassEnded =>
        LET own == SizeRun(data, prev_pos, 0, {})
        IN  /\ own.pos = pos
            /\ IF pc = "Allocating"
               THEN own.tag = "Return" /\ own.count = out_size
               ELSE own.tag = "Err" /\ err = DSError(FromChunkResult(own.err))
            /\ \A d \in PayloadVariants(own.payload) :
                   SizeRun(d, prev_pos, 0, {}) = own

\* calc_dc_size returned a total after stepping over two non-empty payloads
C15_Witness ==
    /\ pc = "Allocating"
    /\ Len(sized) >= 2
    /\ \A i \in 1 .. Len(sized) : sized[i].length >= 1
    /\ out_size > 0

\* C16 (allocation follows validation): the output buffer is allocated at
\* most once, only after calc_dc_size returned Ok(total) and total <=
\* max_output was checked, with length total, and keeps that length; a call
\* that fails in the size pass or in the max_output check allocates no
\* buffer and never calls get_chunk.
C16_AllocateAfterCheck ==
    /\ allocs <= 1
    /\ allocs = 1 => /\ pc \in {"Filling", "Done", "Failed", "Panic"}
                     /\ out_size = count
                     /\ out_size <= max_output
                     /\ Len(out) = out_size
    /\ allocs = 0 => (calls = 0 /\ out = <<>>)
    /\ (pc = "Failed" /\ calls = 0) => allocs = 0

\* decode_stream returned a non-empty buffer after several get_chunk calls
C16_Witness ==
    /\ pc = "Done"
    /\ allocs = 1
    /\ calls >= 3
    /\ out_size > 0
    /\ Len(ret.buf) = out_size

\* The chunk header at 0-based position p of d, as get_chunk reads it
HeaderAt(d, p) ==
    LET f == GetVarint(d, p)
        o == GetVarint(d, f.pos)
        c == GetVarint(d, o.pos)
        compressed == IsCompressed(AsU32(f.val))
    IN  [ok |-> f.ok /\ o.ok /\ (compressed => c.ok),
         orig |-> AsUsize(o.val),
         framed |-> IF compressed THEN AsUsize(c.val) ELSE AsUsize(o.val),
         hdr_end |-> IF compressed THEN c.pos ELSE o.pos]

\* C17 (get_chunk stays in bounds): get_chunk returns Overflow, writing
\* nothing, when the framed length exceeds the input left or original_length
\* exceeds the output space left; otherwise the payload lies inside the input
\* and the destination inside the output buffer, and it never aborts; both
\* cursors stay within their buffers and no byte is read past the input.
C17_InBounds ==
    /\ pc # "Panic"
    /\ pos <= Len(data)
    /\ opos <= Len(out)
    /\ lastread < Len(data)
    /\ (pc = "Filling" /\ pos < Len(data) /\ HeaderAt(data, pos).ok) =>
          LET h == HeaderAt(data, pos)
              r == GetChunkCall(data, pos, out, opos)
          IN  IF h.framed > Len(data) - h.hdr_end \/ h.orig > Len(out) - opos
              THEN r.tag = "Err" /\ r.err = "Overflow" /\ r.out = out
              ELSE /\ r.tag # "Panic"
                   /\ h.hdr_end + h.framed <= Len(data)
                   /\ opos + h.orig <= Len(out)
                   /\ r.pos <= Len(data)
                   /\ r.opos <= Len(out)
                   /\ Len(r.out) = Len(out)

\* get_chunk returned Overflow for a chunk whose payload was all there but
\* whose original_length did not fit the output space left
C17_Witness ==
    /\ pc = "Failed"
    /\ err.kind = "CorruptedOverflow"
    /\ calls >= 2
    /\ Len(filled) >= 1
    /\ \E s \in 0 .. Len(data) :
          /\ s >= filled[Len(filled)].at + filled[Len(filled)].length
          /\ HeaderAt(data, s).ok
          /\ HeaderAt(data, s).hdr_end = pos
          /\ HeaderAt(data, s).framed <= Len(data) - pos
          /\ HeaderAt(data, s).orig > Len(out) - opos

\* C18 (termination): every pass of the loop of calc_dc_size and every
\* get_chunk call that returns Ok(false) moves the input cursor forward, so
\* neither pass takes more iterations than there are input bytes, and
\* decode_stream, once entered, reaches Done or a failure.
C18_Terminates ==
    /\ [][/\ (pc = "Sizing" /\ pc' = "Sizing")
                => (pos' > pos /\ Len(sized') <= Len(data) - prev_pos)
          /\ (pc = "Filling" /\ pc' = "Filling")
                => (pos' > pos /\ Len(filled') <= Len(data) - prev_pos)]_vars
    /\ (pc = "Sizing") ~> (pc \in {"Done", "Failed"})

\* Both passes went twice over chunks with a framed length of 0 and
\* decode_stream returned
C18_Witness ==
    /\ pc = "Done"
    /\ Len(sized) = 2
    /\ Len(filled) = 2
    /\ \A i \in 1 .. 2 : sized[i].length = 0 /\ filled[i].length = 0

\* The i-th block of the source
Block(i) ==
    SubSeq(SourceBytes, (i - 1) * BLOCKSIZE + 1,
           Min(i * BLOCKSIZE, Len(SourceBytes)))

\* C19 (encoder wire layout): what encode_stream has written is, chunk by
\* chunk, the one byte 0x01 (flags, Compressed set), the varint of the slice
\* length, the varint of the number of compressed bytes and exactly those
\* bytes, with nothing before, between or after the chunks.
C19_WireLayout ==
    pc \in {"Encoding", "Encoded"} =>
        LET w == WireParse(result, 0)
            n == Len(emitted)
            End(i) == IF i < n THEN emitted[i + 1].at ELSE Len(result)
        IN  /\ w.status = "Ok"
            /\ Len(w.chunks) = n
            /\ n > 0 => emitted[1].at = 0
            /\ \A i \in 1 .. n :
                /\ w.chunks[i].at = emitted[i].at
                /\ w.chunks[i].flags = FLAG_COMPRESSED
                /\ w.chunks[i].flags_end = w.chunks[i].at + 1
                /\ result[w.chunks[i].at + 1] = 1
                /\ w.chunks[i].orig = Len(Block(i))
                /\ w.chunks[i].orig = emitted[i].orig
                /\ w.chunks[i].framed = emitted[i].comp
                /\ SubSeq(result, End(i) - emitted[i].comp + 1, End(i))
                      = Compress(Block(i))

\* encode_stream returned three chunks, the last one shorter than a block
C19_Witness ==
    /\ pc = "Encoded"
    /\ Len(emitted) = 3
    /\ emitted[3].orig < BLOCKSIZE
    /\ emitted[3].at + 3 + emitted[3].comp = Len(result)

\* C20 (cursors at the end): during the fill pass the output cursor is at
\* the sum of the original_length of the chunks decoded so far, and when
\* decode_stream returns Ok the input cursor is at the end of the input and
\* the output cursor at the end of the buffer.
C20_CursorsAtEnd ==
    /\ opos = SumOrig(filled)
    /\ pc = "Done" => (pos = Len(data) /\ opos = Len(out))

====
